---- MODULE Spec2Model ----
(***************************************************************************)
(* Conway's Game of Life engine of src/src/lib.rs (struct Universe).       *)
(*                                                                         *)
(* The two generations are FixedBitSet values.  A bit set is modelled as a *)
(* sequence of booleans; bit i of the set is element i + 1 of the          *)
(* sequence.  Reading a bit outside the set yields false                   *)
(* (FixedBitSet::index goes through contains), writing one panics          *)
(* (FixedBitSet::set asserts bit < length).  A panic ends the run of the   *)
(* operation where it happens: what the operation wrote before is kept,    *)
(* what it would have written after is not, and no later call is made.     *)
(*                                                                         *)
(* The calls are the same actions in every specification; the              *)
(* specifications differ in the Universe a run starts from and in the      *)
(* calls it makes:                                                         *)
(*   Spec         small grids of dead cells, every call                    *)
(*   ResizeSpec   small grids of dead cells, resize, toggle, tick, clear   *)
(*   AnySpec      every content of every small grid, tick and clear        *)
(*   RepeatSpec   randomize, then one call made twice                      *)
(*   NewSpec      the Universe of new(), 64 x 64                           *)
(*   PatternSpec  a glider or a pulsar on an empty grid, then ticks        *)
(***************************************************************************)
EXTENDS Integers, Sequences, FiniteSets

\* ---------------------------------------------------------------- bounds
\* Largest width and height the calls of a run pass or start from.
MaxWidth == 3
MaxHeight == 2
\* Number of calls of a run.
MaxSteps == 2
\* Longest position list handed to set_cells.
MaxCells == 2
\* Number of independent draws of the random source; draw i decides the
\* cells whose index is i modulo RandomBits.
RandomBits == 6
\* Smallest width and height of the grids the patterns are stamped on.
PatternSide == 8

VARIABLES
    width,          \* Universe.width
    height,         \* Universe.height
    current,        \* Universe.current, the generation on display
    next,           \* Universe.next, the scratch generation
    changed_cells,  \* Universe.changed_cells
    status,         \* "ok", or "panic" once a call has panicked
    op,             \* name of the last call
    arg,            \* its arguments
    old,            \* the Universe (and op) as they were when it was made
    valid,          \* every call so far had in-range coordinates and positive dimensions
    steps,          \* number of calls made
    calls,          \* the calls made, oldest first, each <<name, arguments>>
    limit           \* number of calls the run makes

vars == <<width, height, current, next, changed_cells, status, op, arg, old, valid, steps,
          calls, limit>>

\* ------------------------------------------------------------ FixedBitSet
\* FixedBitSet::with_capacity(size): size bits, all false.
WithCapacity(size) == [i \in 1..size |-> FALSE]

\* bits[bit]: false outside the set.
Contains(bits, bit) == bit >= 0 /\ bit < Len(bits) /\ bits[bit + 1]

\* The assertion of FixedBitSet::set.
CanSet(bits, bit) == bit >= 0 /\ bit < Len(bits)

\* bits.set(bit, enabled), once the assertion has passed.
Put(bits, bit, enabled) == [bits EXCEPT ![bit + 1] = enabled]

\* `b as u8`.
AsU8(b) == IF b THEN 1 ELSE 0

\* ---------------------------------------------------------------- helpers
\* Universe::get_index.
get_index(w, row, column) == row * w + column

\* Mutant: the rows and columns beside an edge are clamped to the edge
\* instead of wrapped to the opposite edge.
neighbor_indices_clamped(w, h, row, column) ==
    LET north == IF row = 0 THEN 0 ELSE row - 1
        south == IF row = h - 1 THEN h - 1 ELSE row + 1
        west  == IF column = 0 THEN 0 ELSE column - 1
        east  == IF column = w - 1 THEN w - 1 ELSE column + 1
    IN  [nw |-> get_index(w, north, west),
         n  |-> get_index(w, north, column),
         ne |-> get_index(w, north, east),
         w  |-> get_index(w, row, west),
         e  |-> get_index(w, row, east),
         sw |-> get_index(w, south, west),
         s  |-> get_index(w, south, column),
         se |-> get_index(w, south, east)]

\* Mutant: the north-west and south-east lookups are exchanged.
neighbor_indices_mirrored(w, h, row, column) ==
    LET north == IF row = 0 THEN h - 1 ELSE row - 1
        south == IF row = h - 1 THEN 0 ELSE row + 1
        west  == IF column = 0 THEN w - 1 ELSE column - 1
        east  == IF column = w - 1 THEN 0 ELSE column + 1
    IN  [nw |-> get_index(w, south, east),
         n  |-> get_index(w, north, column),
         ne |-> get_index(w, north, east),
         w  |-> get_index(w, row, west),
         e  |-> get_index(w, row, east),
         sw |-> get_index(w, south, west),
         s  |-> get_index(w, south, column),
         se |-> get_index(w, north, west)]

\* The eight indices live_neighbor_count looks up for the cell (row, column)
\* of a w x h grid, under the names the code gives them.
neighbor_indices(w, h, row, column) ==
    LET north == IF row = 0 THEN h - 1 ELSE row - 1
        south == IF row = h - 1 THEN 0 ELSE row + 1
        west  == IF column = 0 THEN w - 1 ELSE column - 1
        east  == IF column = w - 1 THEN 0 ELSE column + 1
    IN  [nw |-> get_index(w, north, west),
         n  |-> get_index(w, north, column),
         ne |-> get_index(w, north, east),
         w  |-> get_index(w, row, west),
         e  |-> get_index(w, row, east),
         sw |-> get_index(w, south, west),
         s  |-> get_index(w, south, column),
         se |-> get_index(w, south, east)]

\* Universe::live_neighbor_count, on generation cur of a w x h grid: the
\* eight lookups, added up in the order of the code.
live_neighbor_count(cur, w, h, row, column) ==
    LET i == neighbor_indices(w, h, row, column)
    IN    AsU8(Contains(cur, i.nw))
        + AsU8(Contains(cur, i.n))
        + AsU8(Contains(cur, i.ne))
        + AsU8(Contains(cur, i.w))
        + AsU8(Contains(cur, i.e))
        + AsU8(Contains(cur, i.sw))
        + AsU8(Contains(cur, i.s))
        + AsU8(Contains(cur, i.se))

\* Mutant: the overpopulation arm is missing, a live cell with more than
\* three live neighbours stays alive.
new_value_crowded(old_value, live_neighbors) ==
    IF old_value /\ live_neighbors < 2 THEN FALSE
    ELSE IF ~old_value /\ live_neighbors = 3 THEN TRUE
    ELSE old_value

\* The match of tick: the first arm that applies decides.
new_value(old_value, live_neighbors) ==
    IF old_value /\ live_neighbors < 2 THEN FALSE
    ELSE IF old_value /\ (live_neighbors = 2 \/ live_neighbors = 3) THEN TRUE
    ELSE IF old_value /\ live_neighbors > 3 THEN FALSE
    ELSE IF ~old_value /\ live_neighbors = 3 THEN TRUE
    ELSE old_value

\* Mutant: the truncating remainder `%` of Rust, negative for a negative
\* dividend.
rem_truncating(a, n) == IF a < 0 THEN 0 - ((0 - a) % n) ELSE a % n

\* i32::rem_euclid for a positive divisor.
rem_euclid(a, n) == a % n

\* The state a call starts from, as the next state remembers it.
Snapshot ==
    [width |-> width, height |-> height, current |-> current, next |-> next,
     changed_cells |-> changed_cells, op |-> op]

\* The end of a call: the fields as the call leaves them.
Commit(name, a, inputs_valid, w, h, cur, nxt, chg, st) ==
    /\ width' = w
    /\ height' = h
    /\ current' = cur
    /\ next' = nxt
    /\ changed_cells' = chg
    /\ status' = st
    /\ op' = name
    /\ arg' = a
    /\ old' = Snapshot
    /\ valid' = (valid /\ inputs_valid)
    /\ steps' = steps + 1
    /\ calls' = Append(calls, <<name, a>>)
    /\ limit' = limit

\* A call can be made: no earlier call panicked, and the run has calls left.
CanCall == status = "ok" /\ steps < limit

\* ------------------------------------------------------------------- tick
\* The loops of tick from cell `index` on (row-major, so the cells are met in
\* index order and get_index(row, column) is the position in that order),
\* reading generation cur and writing nxt and chg.  No iteration reads what
\* another wrote, so each cell's value is given on its own.  The loops end
\* after the last cell, or at the first cell whose bit nxt lacks, where
\* next.set panics; the result says which.
TickLoop(index, cur, nxt, chg, w, h) ==
    LET stop == IF index >= w * h \/ Len(nxt) >= w * h THEN w * h
                ELSE IF Len(nxt) > index THEN Len(nxt) ELSE index
        old_value(idx) == Contains(cur, idx)
        live_neighbors(idx) == live_neighbor_count(cur, w, h, idx \div w, idx % w)
        value(idx) == new_value(old_value(idx), live_neighbors(idx))
        visited(idx) == index <= idx /\ idx < stop
        flipped(idx) == value(idx) # old_value(idx)
    IN  [next |-> [k \in 1..Len(nxt) |-> IF visited(k - 1) THEN value(k - 1) ELSE nxt[k]],
         changed |-> chg \o SelectSeq([k \in 1..(stop - index) |-> index + k - 1], flipped),
         done |-> stop >= w * h]

\* Mutant: one buffer only, so a cell's count sees the already-updated values
\* of the cells before it.
RECURSIVE TickLoopInPlace(_, _, _, _, _)
TickLoopInPlace(index, buf, chg, w, h) ==
    IF index >= w * h
    THEN [next |-> buf, changed |-> chg, done |-> TRUE]
    ELSE LET row == index \div w
             column == index % w
             idx == get_index(w, row, column)
             old_value == Contains(buf, idx)
             value == new_value(old_value, live_neighbor_count(buf, w, h, row, column))
         IN  TickLoopInPlace(index + 1, Put(buf, idx, value),
                             IF value # old_value THEN Append(chg, idx) ELSE chg, w, h)

TickResultInPlace == TickLoopInPlace(0, current, <<>>, width, height)

\* Mutant: changed_cells is not cleared before the loops.
TickResultNoClear == TickLoop(0, current, next, changed_cells, width, height)

\* changed_cells.clear() and the loops of tick.
TickResult == TickLoop(0, current, next, <<>>, width, height)

\* Universe::tick: the loops, then the swap of the buffers.
Tick ==
    /\ CanCall
    /\ LET r == TickResult
       IN  IF r.done
           THEN Commit("tick", <<>>, TRUE, width, height, r.next, current, r.changed, "ok")
           ELSE Commit("tick", <<>>, TRUE, width, height, current, r.next, r.changed, "panic")

\* ----------------------------------------------------------------- resize
\* Mutant: the resize keeps the cells the old buffer held.
SetWidthKeepsCells(w) ==
    /\ CanCall
    /\ Commit("set_width", <<w>>, w >= 1, w, height,
              [i \in 1..(w * height) |-> Contains(current, i - 1)],
              next, changed_cells, "ok")

\* Universe::set_width.
SetWidth(w) ==
    /\ CanCall
    /\ Commit("set_width", <<w>>, w >= 1, w, height, WithCapacity(w * height),
              next, changed_cells, "ok")

\* Universe::set_height.
SetHeight(h) ==
    /\ CanCall
    /\ Commit("set_height", <<h>>, h >= 1, width, h, WithCapacity(h * width),
              next, changed_cells, "ok")

\* ------------------------------------------------------------ toggle_cell
\* Mutant: the flipped bit is written to the scratch buffer, to show after
\* the next tick.
ToggleCellDeferred(row, column) ==
    /\ CanCall
    /\ LET index == get_index(width, row, column)
           current_val == Contains(current, index)
           in_range == row < height /\ column < width
       IN  IF CanSet(next, index)
           THEN Commit("toggle_cell", <<row, column>>, in_range, width, height,
                       current, Put(next, index, ~current_val), changed_cells, "ok")
           ELSE Commit("toggle_cell", <<row, column>>, in_range, width, height,
                       current, next, changed_cells, "panic")

\* Universe::toggle_cell: the bit is read (false outside the set), then set.
ToggleCell(row, column) ==
    /\ CanCall
    /\ LET index == get_index(width, row, column)
           current_val == Contains(current, index)
           in_range == row < height /\ column < width
       IN  IF CanSet(current, index)
           THEN Commit("toggle_cell", <<row, column>>, in_range, width, height,
                       Put(current, index, ~current_val), next, changed_cells, "ok")
           ELSE Commit("toggle_cell", <<row, column>>, in_range, width, height,
                       current, next, changed_cells, "panic")

\* -------------------------------------------------------------- randomize
\* The loop of randomize from cell i on; draw[i % RandomBits] is the outcome
\* of `random() < 0.5` for cell i.
RECURSIVE RandomizeLoop(_, _, _, _)
RandomizeLoop(i, size, cur, draw) ==
    IF i >= size
    THEN [current |-> cur, done |-> TRUE]
    ELSE IF ~CanSet(cur, i)
         THEN [current |-> cur, done |-> FALSE]
         ELSE RandomizeLoop(i + 1, size, Put(cur, i, draw[i % RandomBits]), draw)

\* Universe::randomize.
Randomize(draw) ==
    /\ CanCall
    /\ LET r == RandomizeLoop(0, width * height, current, draw)
       IN  Commit("randomize", draw, TRUE, width, height, r.current, next,
                  changed_cells, IF r.done THEN "ok" ELSE "panic")

\* ------------------------------------------------------------------ clear
\* The loop of clear from cell i on: the bit is set dead, then its index is
\* pushed, whatever the bit was.
RECURSIVE ClearLoop(_, _, _, _)
ClearLoop(i, size, cur, chg) ==
    IF i >= size
    THEN [current |-> cur, changed |-> chg, done |-> TRUE]
    ELSE IF ~CanSet(cur, i)
         THEN [current |-> cur, changed |-> chg, done |-> FALSE]
         ELSE ClearLoop(i + 1, size, Put(cur, i, FALSE), Append(chg, i))

\* Mutant: only the cells that were alive are pushed.
RECURSIVE ClearLoopAliveOnly(_, _, _, _)
ClearLoopAliveOnly(i, size, cur, chg) ==
    IF i >= size
    THEN [current |-> cur, changed |-> chg, done |-> TRUE]
    ELSE ClearLoopAliveOnly(i + 1, size, Put(cur, i, FALSE),
                            IF Contains(cur, i) THEN Append(chg, i) ELSE chg)

ClearResultAliveOnly == ClearLoopAliveOnly(0, width * height, current, <<>>)

\* Mutant: changed_cells is not cleared before the loop.
ClearResultNoReset == ClearLoop(0, width * height, current, changed_cells)

\* changed_cells.clear() and the loop of clear.
ClearResult == ClearLoop(0, width * height, current, <<>>)

\* Universe::clear.
Clear ==
    /\ CanCall
    /\ LET r == ClearResult
       IN  Commit("clear", <<>>, TRUE, width, height, r.current, next, r.changed,
                  IF r.done THEN "ok" ELSE "panic")

\* -------------------------------------------------------------- set_cells
\* Mutant: each listed cell is flipped instead of set alive.
RECURSIVE SetCellsLoopFlipping(_, _, _, _)
SetCellsLoopFlipping(k, cells, cur, w) ==
    IF k > Len(cells)
    THEN [current |-> cur, done |-> TRUE]
    ELSE LET idx == get_index(w, cells[k][1], cells[k][2])
         IN  IF ~CanSet(cur, idx)
             THEN [current |-> cur, done |-> FALSE]
             ELSE SetCellsLoopFlipping(k + 1, cells, Put(cur, idx, ~Contains(cur, idx)), w)

\* The loop of set_cells from position k of the list on.
RECURSIVE SetCellsLoop(_, _, _, _)
SetCellsLoop(k, cells, cur, w) ==
    IF k > Len(cells)
    THEN [current |-> cur, done |-> TRUE]
    ELSE LET idx == get_index(w, cells[k][1], cells[k][2])
         IN  IF ~CanSet(cur, idx)
             THEN [current |-> cur, done |-> FALSE]
             ELSE SetCellsLoop(k + 1, cells, Put(cur, idx, TRUE), w)

\* Universe::set_cells applied to the list `cells`.
set_cells(cells) == SetCellsLoop(1, cells, current, width)

\* Every position of the list is a cell of the grid.
InRange(cells) ==
    \A k \in 1..Len(cells) : cells[k][1] < height /\ cells[k][2] < width

\* A call of Universe::set_cells.
SetCells(cells) ==
    /\ CanCall
    /\ LET r == set_cells(cells)
       IN  Commit("set_cells", cells, InRange(cells), width, height, r.current, next,
                  changed_cells, IF r.done THEN "ok" ELSE "panic")

\* ---------------------------------------------------------- pattern stamps
glider_offsets == << <<-1, 0>>, <<0, 1>>, <<1, -1>>, <<1, 0>>, <<1, 1>> >>

\* Mutant: the last entry of the table is one column further out.
pulsar_offsets_lopsided ==
    << <<-4, -2>>, <<-4, -1>>, <<-4, 1>>, <<-4, 2>>,
       <<-2, -4>>, <<-2, -3>>, <<-2, -2>>, <<-2, -1>>,
       <<-2, 1>>, <<-2, 2>>, <<-2, 3>>, <<-2, 4>>,
       <<0, -4>>, <<0, -3>>, <<0, 3>>, <<0, 4>>,
       <<2, -4>>, <<2, -3>>, <<2, -2>>, <<2, -1>>,
       <<2, 1>>, <<2, 2>>, <<2, 3>>, <<2, 4>>,
       <<4, -2>>, <<4, -1>>, <<4, 1>>, <<4, 3>> >>

pulsar_offsets ==
    << <<-4, -2>>, <<-4, -1>>, <<-4, 1>>, <<-4, 2>>,
       <<-2, -4>>, <<-2, -3>>, <<-2, -2>>, <<-2, -1>>,
       <<-2, 1>>, <<-2, 2>>, <<-2, 3>>, <<-2, 4>>,
       <<0, -4>>, <<0, -3>>, <<0, 3>>, <<0, 4>>,
       <<2, -4>>, <<2, -3>>, <<2, -2>>, <<2, -1>>,
       <<2, 1>>, <<2, 2>>, <<2, 3>>, <<2, 4>>,
       <<4, -2>>, <<4, -1>>, <<4, 1>>, <<4, 2>> >>

\* The positions a stamp builds: each offset added to the anchor and wrapped.
positions(offsets, row, column) ==
    [k \in 1..Len(offsets) |->
        <<rem_euclid(row + offsets[k][1], height),
          rem_euclid(column + offsets[k][2], width)>>]

\* The body shared by insert_glider_at and insert_pulsar_at: rem_euclid
\* panics on a zero divisor, before any cell is set.
Stamp(name, offsets, row, column) ==
    /\ CanCall
    /\ LET in_range == row < height /\ column < width
       IN  IF height = 0 \/ width = 0
           THEN Commit(name, <<row, column>>, in_range, width, height, current, next,
                       changed_cells, "panic")
           ELSE LET r == set_cells(positions(offsets, row, column))
                IN  Commit(name, <<row, column>>, in_range, width, height, r.current,
                           next, changed_cells, IF r.done THEN "ok" ELSE "panic")

\* Universe::insert_glider_at.
InsertGliderAt(row, column) == Stamp("insert_glider_at", glider_offsets, row, column)

\* Universe::insert_pulsar_at.
InsertPulsarAt(row, column) == Stamp("insert_pulsar_at", pulsar_offsets, row, column)

\* ----------------------------------------------------------------- inputs
\* Rows and columns passed to the calls: every cell of the largest grid, and
\* one row and one column beyond it.
Rows == 0..MaxHeight
Columns == 0..MaxWidth

\* Position lists of at most MaxCells positions.
PositionLists == UNION {[1..n -> Rows \X Columns] : n \in 0..MaxCells}

\* Outcomes of the random source.
Draws == [0..(RandomBits - 1) -> BOOLEAN]

\* ------------------------------------------------------------------ Init
\* The fields of a Universe no call has been observed on yet, at the start
\* of a run of n calls.
Begin(w, h, cur, nxt, n) ==
    /\ width = w
    /\ height = h
    /\ current = cur
    /\ next = nxt
    /\ changed_cells = <<>>
    /\ status = "ok"
    /\ op = "none"
    /\ arg = <<>>
    /\ old = [width |-> w, height |-> h, current |-> cur, next |-> nxt,
              changed_cells |-> <<>>, op |-> "none"]
    /\ valid = TRUE
    /\ steps = 0
    /\ calls = <<>>
    /\ limit = n

\* The start of a run of MaxSteps calls.
Start(w, h, cur, nxt) == Begin(w, h, cur, nxt, MaxSteps)

\* The state of new(); set_width(w); set_height(h); tick(); set_width(w):
\* both buffers hold w * h dead cells and changed_cells is empty.
Init ==
    \E w \in 1..MaxWidth, h \in 1..MaxHeight :
        Start(w, h, WithCapacity(w * h), WithCapacity(w * h))

Next ==
    \/ Tick
    \/ \E w \in 0..MaxWidth : SetWidth(w)
    \/ \E h \in 0..MaxHeight : SetHeight(h)
    \/ \E row \in Rows, column \in Columns : ToggleCell(row, column)
    \/ \E draw \in Draws : Randomize(draw)
    \/ Clear
    \/ \E cells \in PositionLists : SetCells(cells)
    \/ \E row \in Rows, column \in Columns : InsertGliderAt(row, column)
    \/ \E row \in Rows, column \in Columns : InsertPulsarAt(row, column)

Spec == Init /\ [][Next]_vars

\* ------------------------------------------------- resizing a live grid
\* The calls around a resize: cells are set by toggle_cell, the buffers are
\* swapped by tick, the list is filled by clear.
ResizeNext ==
    \/ \E w \in 0..MaxWidth : SetWidth(w)
    \/ \E h \in 0..MaxHeight : SetHeight(h)
    \/ \E row \in Rows, column \in Columns : ToggleCell(row, column)
    \/ Tick
    \/ Clear

ResizeSpec == Init /\ [][ResizeNext]_vars

\* ------------------------------------------------- calls on any Universe
\* n bits, all true: a buffer whose cells were all alive when it was swapped
\* out, or the stale end of one.
Full(n) == [i \in 1..n |-> TRUE]

\* The buffers of a Universe of w x h cells.  The w * h cells have any
\* content (toggle_cell reaches each cell).  The buffers are as long as the
\* grid; or the Universe was one row higher and set_height left next one row
\* too long; or a tick then swapped that buffer in, and current ends in a
\* stale row; or the Universe was one row lower and set_height left next one
\* row too short.  The stale bits are alive.  changed_cells is empty, as
\* after clear() on a grid of zero cells.
Buffers(w, h) ==
    LET Contents == [1..(w * h) -> BOOLEAN]
    IN  {<<cells, nxt>> :
            cells \in Contents,
            nxt \in {WithCapacity(w * h), Full(w * h + w), Full(w * h - w)}}
        \cup {<<cells \o Full(w), WithCapacity(w * h)>> : cells \in Contents}

AnyInit ==
    \E w \in 0..MaxWidth, h \in 0..MaxHeight :
        \E b \in Buffers(w, h) : Start(w, h, b[1], b[2])

\* The calls that take no coordinates.
AnyNext ==
    \/ Tick
    \/ Clear

AnySpec == AnyInit /\ [][AnyNext]_vars

\* ------------------------------------------ a call made twice on any grid
\* A run of three calls on a grid of dead cells: randomize fills the grid,
\* then toggle_cell, set_cells or insert_glider_at is called, then the same
\* call is made again with the same arguments.  The lists handed to
\* set_cells hold cells of the grid only.
RepeatInit ==
    \E w \in 1..MaxWidth, h \in 1..MaxHeight :
        Begin(w, h, WithCapacity(w * h), WithCapacity(w * h), 3)

RepeatNext ==
    \/ calls = <<>> /\ \E draw \in Draws : Randomize(draw)
    \/ Len(calls) = 1 /\ \E row \in Rows, column \in Columns : ToggleCell(row, column)
    \/ Len(calls) = 1 /\ \E cells \in PositionLists : InRange(cells) /\ SetCells(cells)
    \/ Len(calls) = 1 /\ \E row \in Rows, column \in Columns : InsertGliderAt(row, column)
    \/ Len(calls) = 2 /\ op = "toggle_cell" /\ ToggleCell(arg[1], arg[2])
    \/ Len(calls) = 2 /\ op = "set_cells" /\ SetCells(arg)
    \/ Len(calls) = 2 /\ op = "insert_glider_at" /\ InsertGliderAt(arg[1], arg[2])

RepeatSpec == RepeatInit /\ [][RepeatNext]_vars

\* ------------------------------------------------------------------ new
\* The width and the height new() gives the Universe.
NewWidth == 64
NewHeight == 64

\* Mutant: the two conditions of the seed are joined by `and`.
seed_both(i) == i % 2 = 0 /\ i % 7 = 0

\* The value new() sets bit i of current to.
seed(i) == i % 2 = 0 \/ i % 7 = 0

\* Universe::new, at the start of a run of two calls.
NewInit ==
    LET size == NewWidth * NewHeight
    IN  Begin(NewWidth, NewHeight, [i \in 1..size |-> seed(i - 1)], WithCapacity(size), 2)

\* Calls on the new Universe.
NewNext ==
    \/ Tick
    \/ \E w \in 0..MaxWidth : SetWidth(w)
    \/ \E h \in 0..MaxHeight : SetHeight(h)
    \/ \E row \in Rows, column \in Columns : ToggleCell(row, column)
    \/ \E row \in Rows, column \in Columns : InsertGliderAt(row, column)

NewSpec == NewInit /\ [][NewNext]_vars

\* ------------------------------------------- a pattern on an empty grid
\* A run on a grid of dead cells, PatternSide to PatternSide + 2 cells wide
\* and high: a glider or a pulsar is stamped at a cell of the grid, then the
\* grid is ticked, MaxSteps + 2 times at most.
PatternInit ==
    \E w \in PatternSide..(PatternSide + 2), h \in PatternSide..(PatternSide + 2) :
        Begin(w, h, WithCapacity(w * h), WithCapacity(w * h), MaxSteps + 3)

PatternNext ==
    \/ calls = <<>> /\ \E row \in 0..(height - 1), column \in 0..(width - 1) :
                            InsertGliderAt(row, column)
    \/ calls = <<>> /\ \E row \in 0..(height - 1), column \in 0..(width - 1) :
                            InsertPulsarAt(row, column)
    \/ calls # <<>> /\ Tick

PatternSpec == PatternInit /\ [][PatternNext]_vars

\* ---------------------------------------------------------------- claims
\* The cell (row, column) of a w x h grid stored in cur is alive.
Alive(cur, w, row, column) == Contains(cur, row * w + column)

\* The eight neighbour offsets.
Offsets8 == {o \in {-1, 0, 1} \X {-1, 0, 1} : o # <<0, 0>>}

\* Live toroidal neighbours of (row, column): one per offset whose wrapped
\* position is alive, so a cell that several offsets wrap to counts for each.
ToroidalCount(cur, w, h, row, column) ==
    Cardinality({o \in Offsets8 :
        Alive(cur, w, (row + o[1]) % h, (column + o[2]) % w)})

\* The cell indices of the grid.
Indices == 0..(width * height - 1)

\* The elements of a sequence.
Range(seq) == {seq[k] : k \in 1..Len(seq)}

\* A sequence of numbers is strictly ascending.
Ascending(seq) == \A k \in 1..(Len(seq) - 1) : seq[k] < seq[k + 1]

\* C1: after a tick that returned, on a grid of positive width and height,
\* a cell is alive iff in the generation before the tick it was alive with
\* exactly 2 or 3 live toroidal neighbours or dead with exactly 3, every
\* count being taken from the generation before the tick.
C1_TickAppliesRulesToSnapshot ==
    (op = "tick" /\ status = "ok" /\ width >= 1 /\ height >= 1) =>
        \A row \in 0..(height - 1), column \in 0..(width - 1) :
            LET was == Alive(old.current, width, row, column)
                n == ToroidalCount(old.current, width, height, row, column)
            IN  Alive(current, width, row, column)
                    <=> ((was /\ n \in {2, 3}) \/ (~was /\ n = 3))

\* A returned tick on a grid three cells wide, in which a dead cell with
\* three live neighbours was born and a live cell stayed alive.
C1_Witness ==
    /\ op = "tick" /\ status = "ok" /\ width = 3 /\ height >= 1
    /\ \E i \in Indices : ~Contains(old.current, i) /\ Contains(current, i)
    /\ \E i \in Indices : Contains(old.current, i) /\ Contains(current, i)

\* C2: after a tick that returned, changed_cells holds exactly the indices
\* whose state differs between the grid before and the grid after the tick,
\* each once, in ascending index order, and nothing from an earlier call.
C2_ChangedListIsTheDifference ==
    (op = "tick" /\ status = "ok") =>
        /\ Range(changed_cells) =
              {i \in Indices : Contains(old.current, i) # Contains(current, i)}
        /\ Ascending(changed_cells)

\* A returned tick that changed two cells or more, made when changed_cells
\* still listed a cell that this tick did not change.
C2_Witness ==
    /\ op = "tick" /\ status = "ok"
    /\ Len(changed_cells) >= 2
    /\ \E i \in Range(old.changed_cells) : i \notin Range(changed_cells)

C5_CellsLengthIsWidthTimesHeight == valid => Len(current) = width * height

\* C6, as the specification states it: as long as every call had in-range
\* coordinates and positive dimensions, tick, randomize, clear and the
\* pattern stamps return (none panics on a write outside a buffer).
C6_ValidCallsNeverFail ==
    (valid /\ op \in {"tick", "randomize", "clear",
                      "insert_glider_at", "insert_pulsar_at"})
        => status = "ok"

\* C7: after set_width(w) the width is w and the height is unchanged, after
\* set_height(h) the height is h and the width is unchanged, and in both
\* cases the current buffer is width * height dead cells.
C7_ResizeGivesDeadGrid ==
    /\ op = "set_width" => (status = "ok" /\ width = arg[1] /\ height = old.height)
    /\ op = "set_height" => (status = "ok" /\ height = arg[1] /\ width = old.width)
    /\ op \in {"set_width", "set_height"} =>
          /\ Len(current) = width * height
          /\ \A i \in Indices : ~Contains(current, i)

\* A resize to another positive dimension of a grid that held a live cell.
C7_Witness ==
    /\ op \in {"set_width", "set_height"}
    /\ \E i \in 0..(old.width * old.height - 1) : Contains(old.current, i)
    /\ width * height > 0
    /\ <<width, height>> # <<old.width, old.height>>

\* The call had a position that is not a cell of the grid it was made on.
OutOfRange(list) ==
    \E k \in 1..Len(list) : list[k][1] >= old.height \/ list[k][2] >= old.width

\* C8, as the specification states it: toggle_cell and set_cells given a
\* position with row >= height or column >= width do not return normally,
\* and toggle_cell then flips no cell.
C8_OutOfRangeIsRejected ==
    /\ (op = "toggle_cell" /\ OutOfRange(<<arg>>)) =>
          (status # "ok" /\ current = old.current)
    /\ (op = "set_cells" /\ OutOfRange(arg)) => status # "ok"

\* C9, as the specification states it: set_width(0) and set_height(0) leave
\* width, height and cells as they were, so no dimension is ever zero.
C9_ZeroDimensionIsRejected ==
    /\ (op \in {"set_width", "set_height"} /\ arg[1] = 0) =>
          /\ status # "ok"
          /\ width = old.width /\ height = old.height /\ current = old.current
    /\ width >= 1
    /\ height >= 1

AnchorInRange ==
    /\ arg[1] < old.height /\ arg[2] < old.width
    /\ Len(old.current) = old.width * old.height

\* The offsets of the glider, as the specification lists them.
GliderShape == {<<-1, 0>>, <<0, 1>>, <<1, -1>>, <<1, 0>>, <<1, 1>>}

\* The cells of a w x h grid at the offsets of shape from (row, column),
\* rows and columns taken modulo the height and the width.
Wrapped(shape, w, h, row, column) ==
    {<<(row + o[1]) % h, (column + o[2]) % w>> : o \in shape}

\* The cells of the grid.
Cells == (0..(height - 1)) \X (0..(width - 1))

\* The live cells of generation cur of the grid.
Live(cur) == {c \in Cells : Alive(cur, width, c[1], c[2])}

\* The run is a glider stamped on the empty grid and then four ticks.
GliderThenFourTicks ==
    /\ Len(calls) = 5
    /\ calls[1][1] = "insert_glider_at"
    /\ \A k \in 2..5 : calls[k][1] = "tick"

\* C11: on a grid at least 8 cells wide and high whose cells were all dead,
\* a glider stamped at any cell (row, col) and then four ticks leave
\* exactly five live cells, those of a glider stamped at
\* ((row + 1) mod height, (col + 1) mod width) on an empty grid.
C11_GliderMovesOneCellDiagonally ==
    (GliderThenFourTicks /\ width >= 8 /\ height >= 8) =>
        LET row == calls[1][2][1]
            col == calls[1][2][2]
        IN  /\ status = "ok"
            /\ Cardinality(Live(current)) = 5
            /\ Live(current) =
                  Wrapped(GliderShape, width, height, (row + 1) % height, (col + 1) % width)

\* Four ticks after a glider was stamped in the last row and last column of
\* an 8 x 8 grid: five cells are alive, (0, 0) among them.
C11_Witness ==
    /\ GliderThenFourTicks /\ width = 8 /\ height = 8
    /\ calls[1][2] = <<7, 7>>
    /\ Cardinality(Live(current)) = 5
    /\ Alive(current, width, 0, 1)

\* The w * h cells of a grid stored in cur, without what lies behind them.
Visible(cur, w, h) == [i \in 1..(w * h) |-> Contains(cur, i - 1)]

\* What tick computes for a grid held by a Universe whose scratch buffer
\* has width * height dead cells and whose changed_cells is empty.
FreshTick(cur, w, h) == TickLoop(0, Visible(cur, w, h), WithCapacity(w * h), <<>>, w, h)

\* C12, as the specification states it: tick returns, and the generation
\* and the changed_cells it leaves are those computed from the width, the
\* height and the cells of the grid alone, whatever the scratch buffer and
\* changed_cells held before (here for the runs whose calls all had
\* in-range coordinates and positive dimensions).
C12_TickDependsOnGridOnly ==
    (valid /\ op = "tick") =>
        LET r == FreshTick(old.current, old.width, old.height)
        IN  /\ status = "ok"
            /\ Visible(current, width, height) = r.next
            /\ changed_cells = r.changed

\* C13: insert_glider_at(row, col) with an anchor in the grid returns, keeps
\* width and height, and leaves alive exactly the cells that were alive
\* before together with the five cells ((row + dr) mod height,
\* (col + dc) mod width), also when row + dr or col + dc is negative.
C13_GliderStampSetsWrappedCells ==
    (op = "insert_glider_at" /\ AnchorInRange) =>
        /\ status = "ok"
        /\ width = old.width /\ height = old.height
        /\ Len(current) = Len(old.current)
        /\ Live(current) =
              Live(old.current) \cup Wrapped(GliderShape, width, height, arg[1], arg[2])

\* A glider stamped at (0, 0), where two offsets give negative sums, on a
\* grid three cells wide and two high: a dead cell under the stamp became
\* alive, a live cell and a dead cell outside the stamp kept their state.
C13_Witness ==
    /\ op = "insert_glider_at" /\ arg = <<0, 0>> /\ width = 3 /\ height = 2
    /\ ~Alive(old.current, width, 1, 2) /\ Alive(current, width, 1, 2)
    /\ Alive(old.current, width, 0, 0) /\ Alive(current, width, 0, 0)
    /\ ~Alive(old.current, width, 0, 2) /\ ~Alive(current, width, 0, 2)

\* The offset in -4..(n - 5) that leads from position `from` to position
\* `to` on a ring of n positions.
RingOffset(from, to, n) == ((to - from + 4) % n) - 4

\* The offsets of the live cells of the grid from the anchor of the call.
LiveOffsets ==
    {<<RingOffset(arg[1], c[1], height), RingOffset(arg[2], c[2], width)>> :
        c \in Live(current)}

\* C14: insert_pulsar_at(row, col) at a cell of an all-dead grid at least 9
\* cells wide and high returns and leaves exactly 28 live cells; each lies
\* at most 4 rows and 4 columns from the anchor, going around the edges,
\* and with every offset (dr, dc) of a live cell the offsets (-dr, dc) and
\* (dr, -dc) are offsets of live cells too.
C14_PulsarStampIsSymmetric ==
    (op = "insert_pulsar_at" /\ AnchorInRange /\ Live(old.current) = {}
            /\ width >= 9 /\ height >= 9) =>
        /\ status = "ok"
        /\ width = old.width /\ height = old.height
        /\ Cardinality(Live(current)) = 28
        /\ \A o \in LiveOffsets : o[1] \in -4..4 /\ o[2] \in -4..4
        /\ \A o \in LiveOffsets :
              <<0 - o[1], o[2]>> \in LiveOffsets /\ <<o[1], 0 - o[2]>> \in LiveOffsets

\* A pulsar stamped at (0, 0) of the all-dead 9 x 9 grid: 28 cells are
\* alive, among them (5, 7), four rows above and two columns left of the
\* anchor around the edges.
C14_Witness ==
    /\ op = "insert_pulsar_at" /\ arg = <<0, 0>> /\ width = 9 /\ height = 9
    /\ Live(old.current) = {}
    /\ Cardinality(Live(current)) = 28
    /\ Alive(current, width, 5, 7)

\* The eight indices of a record of lookups.
Looked(i) == {i.nw, i.n, i.ne, i.w, i.e, i.sw, i.s, i.se}

\* The grid has cells and (0, 0) is the only live one.
OnlyOriginAlive ==
    /\ width >= 1 /\ height >= 1
    /\ {i \in Indices : Contains(current, i)} = {get_index(width, 0, 0)}

\* The lookups made for the last cell of the grid, (height - 1, width - 1).
LastCellLookups == neighbor_indices(width, height, height - 1, width - 1)

\* C15, as the specification states it: when (0, 0) is the only live cell,
\* the count of the cell (height - 1, width - 1) is at least one and its
\* north-west lookup is the one that finds (0, 0) alive.
C15_OriginCountedByNorthWestLookup ==
    OnlyOriginAlive =>
        /\ live_neighbor_count(current, width, height, height - 1, width - 1) >= 1
        /\ Contains(current, LastCellLookups.nw)

\* C15, amended: when (0, 0) is the only live cell, the count of the cell
\* (height - 1, width - 1) is at least one, its south-east lookup resolves
\* to (0, 0) and finds it alive, and its north-west lookup resolves to
\* (height - 2, width - 2) wrapped, which is (0, 0) only on grids at most
\* two cells wide and two cells high.
C15_OriginCountedBySouthEastLookup ==
    OnlyOriginAlive =>
        /\ live_neighbor_count(current, width, height, height - 1, width - 1) >= 1
        /\ LastCellLookups.se = get_index(width, 0, 0)
        /\ Contains(current, LastCellLookups.se)
        /\ LastCellLookups.nw =
              get_index(width, (height - 2) % height, (width - 2) % width)
        /\ Contains(current, LastCellLookups.nw) <=> (width <= 2 /\ height <= 2)

\* A tick made on a grid three cells wide and two high whose only live cell
\* was (0, 0): the last cell counted it, and not through its north-west
\* lookup.
C15_Witness ==
    /\ op = "tick" /\ status = "ok" /\ width = 3 /\ height = 2
    /\ {i \in Indices : Contains(old.current, i)} = {get_index(width, 0, 0)}
    /\ live_neighbor_count(old.current, width, height, height - 1, width - 1) >= 1
    /\ ~Contains(old.current, LastCellLookups.nw)
    /\ Contains(old.current, LastCellLookups.se)

Repeated == Len(calls) >= 2 /\ calls[Len(calls) - 1] = calls[Len(calls)]

\* C17: set_cells given a list of cells of the grid returns, keeps width and
\* height, and leaves alive exactly the cells that were alive before
\* together with the listed cells (every listed cell is alive, no live cell
\* died, every cell not listed kept its state); the same list applied a
\* second time leaves the buffer as it was.
C17_SetCellsOnlySetsListedCells ==
    (op = "set_cells" /\ ~OutOfRange(arg)
            /\ Len(old.current) = old.width * old.height) =>
        /\ status = "ok"
        /\ width = old.width /\ height = old.height
        /\ Len(current) = Len(old.current)
        /\ Range(arg) \subseteq Live(current)
        /\ Live(old.current) \subseteq Live(current)
        /\ \A c \in Cells \ Range(arg) :
              Alive(current, width, c[1], c[2]) <=> Alive(old.current, width, c[1], c[2])
        /\ Repeated => current = old.current

\* The second application of a list of two cells, one of them dead and one
\* alive before the first application, on a grid that also holds a live
\* cell and a dead cell the list does not name.
C17_Witness ==
    /\ op = "set_cells" /\ Repeated /\ ~OutOfRange(arg) /\ Len(arg) = 2
    /\ calls[1][1] = "randomize"
    /\ \E c \in Range(arg) : calls[1][2][get_index(width, c[1], c[2]) % RandomBits]
    /\ \E c \in Range(arg) : ~calls[1][2][get_index(width, c[1], c[2]) % RandomBits]
    /\ \E c \in Cells \ Range(arg) : Alive(current, width, c[1], c[2])
    /\ \E c \in Cells \ Range(arg) : ~Alive(current, width, c[1], c[2])

\* The cell of index i was alive after the randomize that opened the run.
Filled(i) == calls[1][1] = "randomize" /\ calls[1][2][i % RandomBits]

\* C18: toggle_cell(row, col) on a cell of the grid returns, keeps width and
\* height, and leaves the current buffer as it was except for the bit
\* row * width + col, which is flipped as soon as the call returns; the
\* second of two toggles of the same cell in a row leaves the grid as it was
\* before the first.
C18_ToggleFlipsOneCell ==
    (op = "toggle_cell" /\ AnchorInRange) =>
        /\ status = "ok"
        /\ width = old.width /\ height = old.height
        /\ Len(current) = Len(old.current)
        /\ \A i \in Indices :
              Contains(current, i) <=>
                  IF i = arg[1] * width + arg[2]
                  THEN ~Contains(old.current, i)
                  ELSE Contains(old.current, i)
        /\ (Repeated /\ Len(calls) = 3) =>
              \A i \in Indices : Contains(current, i) <=> Filled(i)

\* The second of two toggles of a cell that was dead at first, on a grid
\* that holds a live cell and another dead cell.
C18_Witness ==
    /\ op = "toggle_cell" /\ AnchorInRange /\ Repeated /\ Len(calls) = 3
    /\ Contains(old.current, arg[1] * width + arg[2])
    /\ ~Contains(current, arg[1] * width + arg[2])
    /\ \E i \in Indices : Contains(current, i)
    /\ \E i \in Indices : i # arg[1] * width + arg[2] /\ ~Contains(current, i)

\* C19: on every grid of positive width and height, widths and heights of
\* one and two included, the count of a cell is the number of the eight
\* offsets whose wrapped position is alive (a cell that several offsets
\* wrap to, the cell itself included, counts once for each), every index
\* looked up is a cell index of the grid, and the count is in 0..8.
C19_CountIsWrappedSumInBounds ==
    (width >= 1 /\ height >= 1) =>
        \A c \in Cells :
            LET n == live_neighbor_count(current, width, height, c[1], c[2])
            IN  /\ n = ToroidalCount(current, width, height, c[1], c[2])
                /\ Looked(neighbor_indices(width, height, c[1], c[2])) \subseteq Indices
                /\ n \in 0..8

\* A tick of the grid of one cell, alive: all eight lookups resolved to the
\* cell itself, the count was 8 and the cell died.
C19_Witness ==
    /\ op = "tick" /\ status = "ok" /\ width = 1 /\ height = 1
    /\ Contains(old.current, 0)
    /\ live_neighbor_count(old.current, 1, 1, 0, 0) = 8
    /\ ~Contains(current, 0)

\* C20, as the specification states it: in every state reached by calls
\* that returned, all with in-range coordinates and positive dimensions,
\* every element of changed_cells is a cell index of the grid.
C20_ChangedIndicesAreCells ==
    (valid /\ status = "ok") =>
        \A k \in 1..Len(changed_cells) : changed_cells[k] \in Indices
====
